---- MODULE Spec2Model ----
(***************************************************************************)
(* Canary (sveltekit-canary): server-side feature flags.                   *)
(*                                                                         *)
(* The module models                                                       *)
(*   - utils/hash.ts: hashString, isInRollout, assignVariant, with the     *)
(*     32-bit accumulator of hashString kept at its width;                 *)
(*   - utils/configLoader.ts: the cached config, its TTL and the provider; *)
(*   - utils/userContext.ts: the cookies behind the user context;          *)
(*   - features.remote.ts: the queries checkFeature / checkFeatures /      *)
(*     getUserInfo and the commands joinGroup / leaveGroup;                *)
(*   - hooks/featureRouting.ts: isFeatureEnabled and handleFeatureRouting. *)
(*                                                                         *)
(* Specifications.  Spec: the requests one browser sends one after         *)
(* another, with the loader's cache, clock and provider.  SpecRouting:     *)
(* the page requests of one browser through the routing hook.  SpecLoader: *)
(* loadConfig called by itself, with a provider that may return malformed  *)
(* configs.  SpecLoaderOverlap: two loadConfig calls under way at a time.  *)
(* SpecOverlap: two requests of one browser under way at a time.           *)
(* SpecHash: single calls of the functions of hash.ts.  SpecEval: single   *)
(* calls of isFeatureEnabled and checkFeature on the same arguments.       *)
(*                                                                         *)
(* JavaScript values.  An object is a function whose DOMAIN is the set of  *)
(* its own properties, so an optional property that is absent is absent    *)
(* from the DOMAIN.  A value that may be null or undefined is tagged:      *)
(* Str(s), JSNull, JSUndefined.  A string is a TLA+ string; CharCodes      *)
(* gives its UTF-16 code units where hashString reads them.                *)
(***************************************************************************)
EXTENDS Integers, Sequences, FiniteSets, TLC

----------------------------------------------------------------------------
(* Strings and their code units (str.charCodeAt(i))                        *)

CharCodes ==
   "" :> <<>> @@
   "a" :> <<97>> @@
   "test-string" :> <<116, 101, 115, 116, 45, 115, 116, 114, 105, 110, 103>> @@
   "user-123:feature-abc" :> <<117, 115, 101, 114, 45, 49, 50, 51, 58, 102, 101, 97, 116, 117, 114, 101, 45, 97, 98, 99>> @@
   "polygenelubricants" :> <<112, 111, 108, 121, 103, 101, 110, 101, 108, 117, 98, 114, 105, 99, 97, 110, 116, 115>> @@
   ":" :> <<58>> @@
   "rollout" :> <<114, 111, 108, 108, 111, 117, 116>> @@
   "variant" :> <<118, 97, 114, 105, 97, 110, 116>> @@
   "new-dashboard" :> <<110, 101, 119, 45, 100, 97, 115, 104, 98, 111, 97, 114, 100>> @@
   "beta-checkout" :> <<98, 101, 116, 97, 45, 99, 104, 101, 99, 107, 111, 117, 116>> @@
   "experimental-feature" :> <<101, 120, 112, 101, 114, 105, 109, 101, 110, 116, 97, 108, 45, 102, 101, 97, 116, 117, 114, 101>> @@
   "ab-test-homepage" :> <<97, 98, 45, 116, 101, 115, 116, 45, 104, 111, 109, 101, 112, 97, 103, 101>> @@
   "missing" :> <<109, 105, 115, 115, 105, 110, 103>> @@
   "constructor" :> <<99, 111, 110, 115, 116, 114, 117, 99, 116, 111, 114>> @@
   "/checkout" :> <<47, 99, 104, 101, 99, 107, 111, 117, 116>> @@
   "/" :> <<47>> @@
   "/beta" :> <<47, 98, 101, 116, 97>> @@
   "/dashboard" :> <<47, 100, 97, 115, 104, 98, 111, 97, 114, 100>> @@
   "/internal" :> <<47, 105, 110, 116, 101, 114, 110, 97, 108>> @@
   "checkout" :> <<99, 104, 101, 99, 107, 111, 117, 116>> @@
   "user_1730622000123_k7q015pwf4b" :> <<117, 115, 101, 114, 95, 49, 55, 51, 48, 54, 50, 50, 48, 48, 48, 49, 50, 51, 95, 107, 55, 113, 48, 49, 53, 112, 119, 102, 52, 98>> @@
   "user_1730622000456_k7q0ivqa2h9" :> <<117, 115, 101, 114, 95, 49, 55, 51, 48, 54, 50, 50, 48, 48, 48, 52, 53, 54, 95, 107, 55, 113, 48, 105, 118, 113, 97, 50, 104, 57>> @@
   "user_1730622000789_k3j9x0q2m1z" :> <<117, 115, 101, 114, 95, 49, 55, 51, 48, 54, 50, 50, 48, 48, 48, 55, 56, 57, 95, 107, 51, 106, 57, 120, 48, 113, 50, 109, 49, 122>> @@
   "user_1730622000999_p0o9i8u7y6t" :> <<117, 115, 101, 114, 95, 49, 55, 51, 48, 54, 50, 50, 48, 48, 48, 57, 57, 57, 95, 112, 48, 111, 57, 105, 56, 117, 55, 121, 54, 116>> @@
   "user_1730622000321_k7q0nyb6k33" :> <<117, 115, 101, 114, 95, 49, 55, 51, 48, 54, 50, 50, 48, 48, 48, 51, 50, 49, 95, 107, 55, 113, 48, 110, 121, 98, 54, 107, 51, 51>> @@
   "user-k7q03sqfycz:feature-abc" :> <<117, 115, 101, 114, 45, 107, 55, 113, 48, 51, 115, 113, 102, 121, 99, 122, 58, 102, 101, 97, 116, 117, 114, 101, 45, 97, 98, 99>>

\* Template literal `${a}:${b}:${c}` as a sequence of code units.
Template(a, b, c) ==
  CharCodes[a] \o CharCodes[":"] \o CharCodes[b] \o CharCodes[":"] \o CharCodes[c]

----------------------------------------------------------------------------
(* utils/hash.ts                                                           *)

\* 2^16: the accumulator is handled as two 16-bit halves so that no
\* intermediate value leaves the range of a 32-bit integer.
TwoTo16 == 65536

\* The divisor of hashString, 2^31 - 1.
MaxInt32 == 2147483647

\* hash = (hash << 5) - hash + char; hash = hash & hash
\* i.e. 31 * hash + char reduced to a signed 32-bit integer.
hashStep(hash, char) ==
  LET lo    == hash % TwoTo16
      hi    == hash \div TwoTo16
      t     == 31 * lo + char
      hiSum == 31 * hi + (t \div TwoTo16)
      hi2   == ((hiSum + (TwoTo16 \div 2)) % TwoTo16) - (TwoTo16 \div 2)
  IN  hi2 * TwoTo16 + (t % TwoTo16)

\* for (let i = 0; i < str.length; i++) { ... }   (i is 1-based here)
RECURSIVE hashLoop(_, _, _)
hashLoop(str, i, hash) ==
  IF i > Len(str) THEN hash
  ELSE LET next == hashStep(hash, str[i])
       IN  \* the test evaluates next before the next iteration starts
           IF next \in Int THEN hashLoop(str, i + 1, next) ELSE next

\* Math.abs(hash) / 2147483647, as the exact rational whole + frac/MaxInt32
\* with 0 <= frac < MaxInt32.  |hash| ranges over 0 .. 2^31, so whole is 0
\* or 1.  (The double the code computes orders against every integer, and
\* floors after a multiplication by a small integer, exactly as this
\* rational does: a quotient that is not an integer is at least 1/MaxInt32
\* away from one, far more than the rounding error of a double.)
normalize(hash) ==
  LET t == IF hash < 0 THEN (-(hash + 1)) ELSE hash - 1   \* |hash| - 1
  IN  IF hash = 0 THEN [whole |-> 0, frac |-> 0]
      ELSE IF t = MaxInt32 THEN [whole |-> 1, frac |-> 1]
      ELSE IF t = MaxInt32 - 1 THEN [whole |-> 1, frac |-> 0]
      ELSE [whole |-> 0, frac |-> t + 1]

\* export function hashString(str: string): number
hashString(str) == normalize(hashLoop(str, 1, 0))

\* x * 100 <= r for x = whole + frac/MaxInt32 and an integer r <= 100:
\* frac * 100 <= k * MaxInt32 with k = r - 100 * whole, i.e.
\* frac <= floor(k * MaxInt32 / 100).
times100LessEq(x, r) ==
  LET k == r - 100 * x.whole
  IN  /\ k >= 0
      /\ x.frac <= k * (MaxInt32 \div 100) + (k * (MaxInt32 % 100)) \div 100

\* Math.floor(x * n) for x = whole + frac/MaxInt32 and 1 <= n:
\* whole * n + #{ i in 1..n : i * MaxInt32 <= frac * n }.
floorTimes(x, n) ==
  x.whole * n
  + Cardinality({ i \in 1..n :
        x.frac >= i * (MaxInt32 \div n) + (i * (MaxInt32 % n) + n - 1) \div n })

\* User ids as generateUserId() makes them, `user_${Date.now()}_${random}`.
\* With the feature key beta-checkout the rollout hash of the first is 0, of
\* the second 2^31 / (2^31 - 1), of the third 0.0329 and of the fourth 0.6208.
\* With the feature key ab-test-homepage the variant hash of the fifth is 1.
UserIds ==
  { "user_1730622000123_k7q015pwf4b", "user_1730622000456_k7q0ivqa2h9",
    "user_1730622000789_k3j9x0q2m1z", "user_1730622000999_p0o9i8u7y6t",
    "user_1730622000321_k7q0nyb6k33" }

\* Feature keys that requests name: "missing" and "constructor" are defined
\* by no config.
FeatureKeys ==
  { "new-dashboard", "beta-checkout", "experimental-feature",
    "ab-test-homepage", "missing", "constructor" }

\* The strings hashed by the model, hashed once each (the table only saves
\* re-evaluating hashString; its entries are hashString's values).
HashInputs ==
  { <<u, f, p>> : u \in UserIds, f \in FeatureKeys, p \in { "rollout", "variant" } }

hashOf == [ k \in HashInputs |-> hashString(Template(k[1], k[2], k[3])) ]

\* isInRollout with the comparison turned around: hash * 100 > rollout
isInRolloutReversed(userId, featureKey, rollout) ==
  LET hash == hashOf[<<userId, featureKey, "rollout">>]
  IN  ~ times100LessEq(hash, rollout)

\* export function isInRollout(userId, featureKey, rollout): boolean
isInRollout(userId, featureKey, rollout) ==
  LET hash == hashOf[<<userId, featureKey, "rollout">>]
  IN  times100LessEq(hash, rollout)

JSNull == [type |-> "null"]
JSUndefined == [type |-> "undefined"]
Str(s) == [type |-> "string", val |-> s]

\* An array read that finds nothing at any index
atNothing(arr, index) == JSUndefined

\* variants[index]: undefined when index is not an index of the array
at(arr, index) ==
  IF index \in 0 .. (Len(arr) - 1) THEN Str(arr[index + 1]) ELSE JSUndefined

\* export function assignVariant(userId, featureKey, variants, rollout = 100)
assignVariant(userId, featureKey, variants, rollout) ==
  IF Len(variants) = 0 THEN JSNull
  ELSE LET rolloutHash == hashOf[<<userId, featureKey, "rollout">>]
       IN  IF ~ times100LessEq(rolloutHash, rollout) THEN JSNull
           ELSE LET variantHash == hashOf[<<userId, featureKey, "variant">>]
                    index == floorTimes(variantHash, Len(variants))
                IN  at(variants, index)

----------------------------------------------------------------------------
(* JavaScript objects                                                      *)

\* Properties every plain object inherits from Object.prototype; obj[key]
\* finds them when obj has no own property key.
ObjectPrototypeKeys == { "constructor", "toString", "hasOwnProperty" }

\* The inherited member: a function object, truthy, without own
\* properties of interest.
PrototypeMember == [type |-> "function"]

\* obj[key] for a plain object obj
member(obj, key) ==
  IF key \in DOMAIN obj THEN obj[key]
  ELSE IF key \in ObjectPrototypeKeys THEN PrototypeMember
  ELSE JSUndefined

\* Truthiness of a tagged value: null, undefined and "" are falsy.
truthy(v) ==
  \/ v.type = "function"
  \/ v.type = "string" /\ v.val # ""

\* obj.p is truthy, for an object whose property p, when present, is a
\* boolean.
truthyFlag(obj, p) == p \in DOMAIN obj /\ obj[p] = TRUE

\* arr.includes(x)
includes(arr, x) == \E i \in 1..Len(arr) : arr[i] = x

----------------------------------------------------------------------------
(* features.remote.ts: the decisions of the two queries                    *)

\* A lookup that finds no persisted variant, whatever the cookie holds
persistedVariantNone(userContext, featureKey) == JSUndefined

\* userContext.variants[featureKey], tagged
persistedVariant(userContext, featureKey) ==
  LET m == member(userContext.variants, featureKey)
  IN  IF featureKey \in DOMAIN userContext.variants THEN Str(m) ELSE m

\* featureDef.userGroups.some((group) => userContext.groups.includes(group))
hasRequiredGroup(featureDef, userContext) ==
  \E i \in 1..Len(featureDef.userGroups) :
     includes(userContext.groups, featureDef.userGroups[i])

\* featureDef.rollout ?? 100
rolloutOf(featureDef) ==
  IF "rollout" \in DOMAIN featureDef THEN featureDef.rollout ELSE 100

\* featureDef.variants && featureDef.variants.length > 0
hasVariants(featureDef) ==
  "variants" \in DOMAIN featureDef /\ Len(featureDef.variants) > 0

\* featureDef.userGroups && featureDef.userGroups.length > 0
hasUserGroups(featureDef) ==
  "userGroups" \in DOMAIN featureDef /\ Len(featureDef.userGroups) > 0

\* featureDef.defaultVariant, tagged
defaultVariantOf(featureDef) ==
  IF "defaultVariant" \in DOMAIN featureDef THEN Str(featureDef.defaultVariant)
  ELSE JSUndefined

\* checkFeature after `await getFeatureConfig(featureKey)`: the result for
\* the definition featureDef (JSUndefined when the lookup found nothing).
checkFeatureResult(featureKey, featureDef, userContext) ==
  IF featureDef = JSUndefined
  THEN [enabled |-> FALSE, reason |-> "Feature not found"]
  ELSE IF ~ truthyFlag(featureDef, "enabled")
  THEN [enabled |-> FALSE, reason |-> "Feature is globally disabled"]
  ELSE IF hasUserGroups(featureDef) /\ ~ hasRequiredGroup(featureDef, userContext)
  THEN [enabled |-> FALSE, reason |-> "User not in required group"]
  ELSE IF ~ isInRollout(userContext.userId, featureKey, rolloutOf(featureDef))
  THEN [enabled |-> FALSE, reason |-> "User not in rollout percentage"]
  ELSE IF hasVariants(featureDef)
  THEN LET persisted == persistedVariant(userContext, featureKey)
           calculatedVariant ==
             assignVariant(userContext.userId, featureKey, featureDef.variants,
                           rolloutOf(featureDef))
           variant ==
             IF truthy(persisted) THEN persisted
             ELSE IF truthy(calculatedVariant) THEN calculatedVariant
             ELSE IF truthy(defaultVariantOf(featureDef)) THEN defaultVariantOf(featureDef)
             ELSE at(featureDef.variants, 0)
       IN  [enabled |-> TRUE, variant |-> variant,
            reason |-> "Feature enabled with variant"]
  ELSE [enabled |-> TRUE, reason |-> "Feature enabled"]

\* One iteration of the loop of checkFeatures after its await: results[key].
checkFeaturesEntry(key, featureDef, userContext) ==
  IF featureDef = JSUndefined \/ ~ truthyFlag(featureDef, "enabled")
  THEN [enabled |-> FALSE,
        reason |-> IF featureDef = JSUndefined THEN "Feature not found"
                   ELSE "Feature is globally disabled"]
  ELSE IF hasUserGroups(featureDef) /\ ~ hasRequiredGroup(featureDef, userContext)
  THEN [enabled |-> FALSE, reason |-> "User not in required group"]
  ELSE IF ~ isInRollout(userContext.userId, key, rolloutOf(featureDef))
  THEN [enabled |-> FALSE, reason |-> "User not in rollout percentage"]
  ELSE [enabled |-> TRUE, variant |-> persistedVariant(userContext, key),
        reason |-> "Feature enabled"]

\* result.variant as the caller reads it (undefined when the property is
\* absent)
variantOf(result) ==
  IF "variant" \in DOMAIN result THEN result.variant ELSE JSUndefined

----------------------------------------------------------------------------
(* hooks/featureRouting.ts: the hook's own check of a feature              *)

\* isFeatureEnabled without the test of the user groups
isFeatureEnabledNoGroups(featureKey, featureDef, userContext) ==
  IF featureDef = JSUndefined \/ ~ truthyFlag(featureDef, "enabled")
  THEN FALSE
  ELSE isInRollout(userContext.userId, featureKey, rolloutOf(featureDef))

\* async function isFeatureEnabled(event, featureKey) after
\* `await getFeatureConfig(featureKey)`: what it returns for the definition
\* featureDef and the user context it read.
isFeatureEnabled(featureKey, featureDef, userContext) ==
  IF featureDef = JSUndefined \/ ~ truthyFlag(featureDef, "enabled")
  THEN FALSE
  ELSE IF hasUserGroups(featureDef) /\ ~ hasRequiredGroup(featureDef, userContext)
  THEN FALSE
  ELSE IF ~ isInRollout(userContext.userId, featureKey, rolloutOf(featureDef))
  THEN FALSE
  ELSE TRUE

----------------------------------------------------------------------------
(* Configurations                                                          *)

\* features.config.json, the built-in config, as the demo page and the
\* loader's tests describe it; its route is that of README.md.
DefaultConfig ==
  [features |->
     "new-dashboard" :> [enabled |-> TRUE, rollout |-> 100] @@
     "beta-checkout" :> [enabled |-> TRUE, rollout |-> 25,
                         userGroups |-> <<"beta", "internal">>] @@
     "experimental-feature" :> [enabled |-> FALSE, userGroups |-> <<"internal">>] @@
     "ab-test-homepage" :> [enabled |-> TRUE,
                            variants |-> <<"control", "variant-a", "variant-b">>],
   routes |->
     "/dashboard" :> [feature |-> "new-dashboard", enabled |-> "/dashboard-v2",
                      disabled |-> "/dashboard-v1"]]

\* Configs a provider returns: cfgA and cfgB are two versions of a remote
\* config, cfgBad fails validation.
ProviderConfigA ==
  [features |->
     "beta-checkout" :> [enabled |-> TRUE, rollout |-> 25, userGroups |-> <<"beta">>] @@
     "experimental-feature" :> [enabled |-> FALSE, userGroups |-> <<"internal">>] @@
     "ab-test-homepage" :> [enabled |-> TRUE, rollout |-> 100,
                            variants |-> <<"control", "variant-a", "variant-b">>,
                            defaultVariant |-> "control"],
   routes |-> <<>>]

ProviderConfigB ==
  [features |->
     "new-dashboard" :> [enabled |-> TRUE, rollout |-> 50] @@
     "beta-checkout" :> [enabled |-> TRUE, userGroups |-> <<>>] @@
     "experimental-feature" :> [enabled |-> TRUE, rollout |-> 0] @@
     "ab-test-homepage" :> [enabled |-> TRUE, rollout |-> 60,
                            variants |-> <<"variant-a", "variant-b">>,
                            userGroups |-> <<"beta">>],
   routes |-> <<>>]

ProviderConfigBad ==
  [features |->
     "beta-checkout" :> [enabled |-> TRUE, rollout |-> 150]]

\* Further configs a provider may return, each malformed in one way: no
\* boolean enabled (the property is missing), variants / userGroups that are
\* a string instead of an array, a route whose feature no definition has, a
\* route path without the leading slash.
ProviderConfigNoEnabled ==
  [features |-> "beta-checkout" :> [rollout |-> 25]]

ProviderConfigBadVariants ==
  [features |-> "ab-test-homepage" :> [enabled |-> TRUE, variants |-> "control"]]

ProviderConfigBadGroups ==
  [features |-> "beta-checkout" :> [enabled |-> TRUE, userGroups |-> "beta"]]

ProviderConfigBadRoute ==
  [features |-> "beta-checkout" :> [enabled |-> TRUE],
   routes |-> "/checkout" :> [feature |-> "missing"]]

ProviderConfigBadPath ==
  [features |-> "beta-checkout" :> [enabled |-> TRUE],
   routes |-> "checkout" :> [feature |-> "beta-checkout"]]

\* A config with degenerate values that validateConfig lets through: an
\* empty variants array, an empty userGroups array (the 'empty-variants' and
\* 'empty-groups' features of features.remote.test.ts), a falsy variants
\* value, and a route of an existing feature.
ProviderConfigC ==
  [features |->
     "new-dashboard" :> [enabled |-> TRUE, variants |-> <<>>] @@
     "beta-checkout" :> [enabled |-> TRUE, userGroups |-> <<>>] @@
     "ab-test-homepage" :> [enabled |-> TRUE, variants |-> ""],
   routes |-> "/checkout" :> [feature |-> "beta-checkout"]]

\* Two configs with routes, over the features of cfgA and cfgB: routes that
\* require a group, with and without an entry for the group (README.md,
\* 'Route Redirects'), routes of a feature, a route with a redirect for the
\* members of a group.
RouteConfigA ==
  [features |-> ProviderConfigA.features,
   routes |->
     "/" :> [requiresGroup |-> "beta"] @@
     "/beta" :> [requiresGroup |-> "beta", beta |-> "/beta-features"] @@
     "/checkout" :> [feature |-> "beta-checkout", enabled |-> "/checkout-v2",
                     disabled |-> "/checkout"] @@
     "/internal" :> [internal |-> "/internal-tools"]]

RouteConfigB ==
  [features |-> ProviderConfigB.features,
   routes |->
     "/beta" :> [requiresGroup |-> "beta", beta |-> "/beta"] @@
     "/checkout" :> [requiresGroup |-> "internal", feature |-> "beta-checkout",
                     enabled |-> "/checkout", disabled |-> "/"] @@
     "/dashboard" :> [feature |-> "new-dashboard", enabled |-> "/dashboard-v2",
                      beta |-> "/dashboard-beta"]]

Configs ==
  "routesA" :> RouteConfigA @@ "routesB" :> RouteConfigB @@
  "default" :> DefaultConfig @@ "cfgA" :> ProviderConfigA @@
  "cfgB" :> ProviderConfigB @@ "cfgBad" :> ProviderConfigBad @@
  "cfgNoEnabled" :> ProviderConfigNoEnabled @@
  "cfgBadVariants" :> ProviderConfigBadVariants @@
  "cfgBadGroups" :> ProviderConfigBadGroups @@
  "cfgBadRoute" :> ProviderConfigBadRoute @@
  "cfgBadPath" :> ProviderConfigBadPath @@
  "cfgC" :> ProviderConfigC

\* What one invocation of the provider yields: a config, or an exception /
\* a rejected promise.
ProviderOutcomes == { "cfgA", "cfgB", "cfgBad", "throws" }

\* The outcomes of the provider of a site with routes
RoutingOutcomes == { "routesA", "routesB", "throws" }

\* The outcomes of the provider where loadConfig is called by itself
LoaderOutcomes ==
  ProviderOutcomes \cup { "cfgNoEnabled", "cfgBadVariants", "cfgBadGroups",
                          "cfgBadRoute", "cfgBadPath", "cfgC" }

\* cachedConfig = null
NoConfig == "null"

\* The values that stand where an array is expected and are none: strings.
NotArrays == { "control", "beta", "" }

\* Their printed forms (values of different kinds compare by these only).
NotArrayTexts == { ToString(v) : v \in NotArrays }

\* Array.isArray(v), for v an array or one of NotArrays
isArray(v) == ToString(v) \notin NotArrayTexts

\* !(v && !Array.isArray(v)): v is an array, or a falsy value (the empty
\* string)
arrayOrFalsy(v) == isArray(v) \/ v = ""

\* validateConfig without the test of the rollout range
validateConfigNoRange(config) ==
  /\ "features" \in DOMAIN config
  /\ \A key \in DOMAIN config.features :
        LET featureDef == config.features[key]
        IN  /\ "enabled" \in DOMAIN featureDef
            /\ featureDef.enabled \in BOOLEAN
            /\ "variants" \in DOMAIN featureDef => arrayOrFalsy(featureDef.variants)
            /\ "userGroups" \in DOMAIN featureDef => arrayOrFalsy(featureDef.userGroups)
  /\ "routes" \in DOMAIN config
        => \A path \in DOMAIN config.routes :
              LET routeDef == config.routes[path]
              IN  /\ Head(CharCodes[path]) = 47       \* path.startsWith('/')
                  /\ "feature" \in DOMAIN routeDef
                        => member(config.features, routeDef.feature) # JSUndefined

\* validateConfig without the Array.isArray test of variants
validateConfigNoArrayTest(config) ==
  /\ "features" \in DOMAIN config
  /\ \A key \in DOMAIN config.features :
        LET featureDef == config.features[key]
        IN  /\ "enabled" \in DOMAIN featureDef
            /\ featureDef.enabled \in BOOLEAN
            /\ "rollout" \in DOMAIN featureDef
                  => ~ (featureDef.rollout < 0 \/ featureDef.rollout > 100)
            /\ "userGroups" \in DOMAIN featureDef => arrayOrFalsy(featureDef.userGroups)
  /\ "routes" \in DOMAIN config
        => \A path \in DOMAIN config.routes :
              LET routeDef == config.routes[path]
              IN  /\ Head(CharCodes[path]) = 47       \* path.startsWith('/')
                  /\ "feature" \in DOMAIN routeDef
                        => member(config.features, routeDef.feature) # JSUndefined

\* function validateConfig(config): TRUE when it returns config, FALSE
\* when it throws.  typeof featureDef.enabled !== 'boolean' is met by a
\* definition without the property (typeof undefined).
validateConfig(config) ==
  /\ "features" \in DOMAIN config
  /\ \A key \in DOMAIN config.features :
        LET featureDef == config.features[key]
        IN  /\ "enabled" \in DOMAIN featureDef
            /\ featureDef.enabled \in BOOLEAN
            /\ "rollout" \in DOMAIN featureDef
                  => ~ (featureDef.rollout < 0 \/ featureDef.rollout > 100)
            /\ "variants" \in DOMAIN featureDef => arrayOrFalsy(featureDef.variants)
            /\ "userGroups" \in DOMAIN featureDef => arrayOrFalsy(featureDef.userGroups)
  /\ "routes" \in DOMAIN config
        => \A path \in DOMAIN config.routes :
              LET routeDef == config.routes[path]
              IN  /\ Head(CharCodes[path]) = 47       \* path.startsWith('/')
                  /\ "feature" \in DOMAIN routeDef
                        => member(config.features, routeDef.feature) # JSUndefined

----------------------------------------------------------------------------
(* utils/userContext.ts                                                    *)

\* The cookies of one request event: get is the object from cookie names to
\* the values cookies.get returns (the cookies sent with the request,
\* overlaid with those the handler has set), written the names the handler
\* has set, which the response sends back.  The JSON text of canary_groups /
\* canary_variants is kept as the array / object it encodes.
Groups == { "beta", "internal" }

eventCookies(sent) == [get |-> sent, written |-> {}]

\* export function getUserContext(event); generated is what
\* generateUserId() returns if it is called.
getUserContext(cookies, generated) ==
  [userId |-> IF "canary_user_id" \in DOMAIN cookies.get THEN cookies.get.canary_user_id
              ELSE generated,
   groups |-> IF "canary_groups" \in DOMAIN cookies.get THEN cookies.get.canary_groups
              ELSE <<>>,
   variants |-> IF "canary_variants" \in DOMAIN cookies.get
                THEN cookies.get.canary_variants
                ELSE <<>>]

\* cookies.set(name, value, ...)
cookieSet(cookies, name, value) ==
  [get |-> [n \in DOMAIN cookies.get \cup {name} |->
              IF n = name THEN value ELSE cookies.get[n]],
   written |-> cookies.written \cup {name}]

\* ensureUserId that sets a fresh id whether or not the cookie exists
ensureUserIdAlways(cookies, generated) ==
  cookieSet(cookies, "canary_user_id", generated)

\* export function ensureUserId(event): the cookie store afterwards
ensureUserId(cookies, generated) ==
  IF "canary_user_id" \in DOMAIN cookies.get THEN cookies
  ELSE cookieSet(cookies, "canary_user_id", generated)

\* getUserInfo with ensureUserId(event) before it, as the commands have it
getUserInfoEnsuring(cookies, generated) ==
  LET ensured == ensureUserId(cookies, generated)
  IN  [cookies |-> ensured, result |-> getUserContext(ensured, generated)]

\* export const getUserInfo = query(async () => getUserContext(getRequestEvent())):
\* the store afterwards and the context returned
getUserInfo(cookies, generated) ==
  [cookies |-> cookies, result |-> getUserContext(cookies, generated)]

\* export function setUserContext(event, context): the store afterwards
setUserContext(cookies, context) ==
  cookieSet(cookieSet(cookieSet(cookies, "canary_user_id", context.userId),
                      "canary_groups", context.groups),
            "canary_variants", context.variants)

\* context.groups.filter((g) => g !== group)
RECURSIVE without(_, _)
without(groups, group) ==
  IF groups = <<>> THEN <<>>
  ELSE IF Head(groups) = group THEN without(Tail(groups), group)
  ELSE <<Head(groups)>> \o without(Tail(groups), group)

\* addUserToGroup without the includes test: it pushes the group in any case
addUserToGroupAlways(cookies, group, generated) ==
  LET context == getUserContext(cookies, generated)
      pushed == [context EXCEPT !.groups = Append(context.groups, group)]
  IN  [cookies |-> setUserContext(cookies, pushed), context |-> pushed]

\* export function addUserToGroup(event, group): store and returned context
addUserToGroup(cookies, group, generated) ==
  LET context == getUserContext(cookies, generated)
  IN  IF ~ includes(context.groups, group)
      THEN LET pushed == [context EXCEPT !.groups = Append(context.groups, group)]
           IN  [cookies |-> setUserContext(cookies, pushed), context |-> pushed]
      ELSE [cookies |-> cookies, context |-> context]

\* export function removeUserFromGroup(event, group)
removeUserFromGroup(cookies, group, generated) ==
  LET context == getUserContext(cookies, generated)
      filtered == [context EXCEPT !.groups = without(context.groups, group)]
  IN  [cookies |-> setUserContext(cookies, filtered), context |-> filtered]

----------------------------------------------------------------------------
(* State                                                                   *)

VARIABLES
  jar,             \* the browser's cookies
  cachedConfig,    \* configLoader.ts: name of the cached config, or NoConfig
  configLoadedAt,  \* configLoader.ts: Date.now() of the load that filled it
  configProvider,  \* configLoader.ts: whether a provider is configured
  providerConfig,  \* what the provider yields when it is invoked now
  now,             \* Date.now(), milliseconds
  reqs,            \* the requests in flight, by slot
  call,            \* a call of a pure function of hash.ts (SpecHash)
  invalidated      \* history: invalidateCache() has returned and no
                   \* loadConfig() call has started since

vars == <<jar, cachedConfig, configLoadedAt, configProvider, providerConfig,
          now, reqs, call, invalidated>>

loaderVars == <<cachedConfig, configLoadedAt>>

\* Bounds of the model
MaxTicks == 3          \* seconds the clock advances
cacheTTL == 2          \* options.cacheTTL, seconds

\* (now - configLoadedAt) / 1000
MsPerSecond == 1000

Requests == { "r1", "r2" }

\* The user ids of the browser sessions of Spec: one inside and one outside
\* the 25% rollout of beta-checkout, and one whose hash for the variant of
\* ab-test-homepage is exactly 1.
SessionUserIds ==
  { "user_1730622000789_k3j9x0q2m1z", "user_1730622000999_p0o9i8u7y6t",
    "user_1730622000321_k7q0nyb6k33" }

\* The key lists of the batch queries
KeyLists ==
  { <<"beta-checkout", "ab-test-homepage">>,
    <<"experimental-feature", "constructor">>,
    <<"new-dashboard", "missing">> }

\* Cookie jars a browser may hold when it first talks to the server
optional(name, values) == { <<>> } \cup { (name :> v) : v \in values }

InitialJars ==
  { u @@ g @@ v :
      u \in optional("canary_user_id", SessionUserIds),
      g \in optional("canary_groups", { <<>>, <<"beta">>, <<"internal">>,
                                        <<"beta", "internal">> }),
      v \in optional("canary_variants", { ("ab-test-homepage" :> "control") }) }

Idle == [op |-> "idle"]

Init ==
  /\ jar \in InitialJars
  /\ cachedConfig = NoConfig
  /\ configLoadedAt = 0
  /\ configProvider \in BOOLEAN
  /\ providerConfig = "cfgA"
  /\ now = 0
  /\ reqs = [r \in Requests |-> Idle]
  /\ call = [op |-> "none"]
  /\ invalidated = FALSE

----------------------------------------------------------------------------
(* utils/configLoader.ts                                                   *)

\* cacheValid with cacheAge <= cacheTTL
cacheValidInclusive(t) ==
  /\ cachedConfig # NoConfig
  /\ (t - configLoadedAt) <= cacheTTL * MsPerSecond

\* cachedConfig && cacheAge < cacheTTL, with cacheAge = (t - configLoadedAt) / 1000
cacheValid(t) ==
  /\ cachedConfig # NoConfig
  /\ (t - configLoadedAt) < cacheTTL * MsPerSecond

\* loadConfig returns without awaiting the provider: on a cache hit, and
\* when it falls back to the static JSON.
loadsWithoutProvider == cacheValid(now) \/ ~ configProvider

\* The config such a call returns, and the cache it leaves
staticConfig ==
  IF cacheValid(now) THEN cachedConfig ELSE "default"

staticLoadedAt ==
  IF cacheValid(now) THEN configLoadedAt ELSE now

\* The provider's promise has settled with outcome: try-branch when the
\* config validates, catch-branch otherwise.
accepted(outcome) ==
  outcome # "throws" /\ validateConfig(Configs[outcome])

\* A catch block that always falls back to the built-in default
providerConfigResultDefault(outcome) ==
  IF accepted(outcome) THEN outcome ELSE "default"

providerConfigResult(outcome) ==
  IF accepted(outcome) THEN outcome
  ELSE IF cachedConfig # NoConfig THEN cachedConfig
  ELSE "default"

providerLoadedAt(outcome, startedAt) ==
  IF accepted(outcome) \/ cachedConfig = NoConfig THEN startedAt
  ELSE configLoadedAt

\* export async function getFeatureConfig(featureKey): config.features[featureKey]
getFeatureConfig(config, featureKey) == member(Configs[config].features, featureKey)

\* export function invalidateCache()
InvalidateCache ==
  /\ cachedConfig' = NoConfig
  /\ configLoadedAt' = 0
  /\ invalidated' = TRUE
  /\ UNCHANGED <<jar, configProvider, providerConfig, now, reqs, call>>

\* The provider's source publishes another config, or breaks.
ProviderUpdate(outcome) ==
  /\ configProvider
  /\ outcome # providerConfig
  /\ providerConfig' = outcome
  /\ UNCHANGED <<jar, cachedConfig, configLoadedAt, configProvider, now, reqs, call,
                 invalidated>>

\* A second passes.
Tick ==
  /\ now < MaxTicks * MsPerSecond
  /\ now' = now + MsPerSecond
  /\ UNCHANGED <<jar, cachedConfig, configLoadedAt, configProvider, providerConfig,
                 reqs, call, invalidated>>

\* loadConfig() rejects: only when the fallback validateConfig(defaultConfig)
\* of the catch block throws as well.
staticRejects ==
  ~ cacheValid(now) /\ cachedConfig = NoConfig /\ ~ validateConfig(DefaultConfig)

providerRejects(outcome) ==
  ~ accepted(outcome) /\ cachedConfig = NoConfig /\ ~ validateConfig(DefaultConfig)

\* export async function loadConfig(), called by itself (getRouteConfig, a
\* hook, a test): the call runs up to its return or to the await of the
\* provider.  The record keeps what the call did: invoked, whether it called
\* the provider; first, whether it is the first call started since
\* invalidateCache() returned; outcome, what the provider yielded; rejected,
\* whether the promise of loadConfig rejects; config, the config it returns;
\* earlier, the calls whose provider invocation was under way when this
\* call invoked the provider.
awaitingProvider ==
  { q \in Requests : reqs[q].op = "loadConfig" /\ reqs[q].pc = "provider" }

LoadConfigStart(r) ==
  /\ reqs[r].op = "idle"
  /\ IF loadsWithoutProvider
     THEN /\ cachedConfig' = staticConfig
          /\ configLoadedAt' = staticLoadedAt
          /\ reqs' = [reqs EXCEPT ![r] =
               [op |-> "loadConfig", pc |-> "done", first |-> invalidated,
                invoked |-> FALSE, outcome |-> "none",
                rejected |-> staticRejects, config |-> staticConfig]]
     ELSE /\ reqs' = [reqs EXCEPT ![r] =
               [op |-> "loadConfig", pc |-> "provider", first |-> invalidated,
                invoked |-> TRUE, startedAt |-> now, outcome |-> providerConfig,
                earlier |-> awaitingProvider]]
          /\ UNCHANGED loaderVars
  /\ invalidated' = FALSE
  /\ UNCHANGED <<jar, configProvider, providerConfig, now, call>>

\* The provider's promise settles; loadConfig finishes in its try or its
\* catch block.
LoadConfigResume(r) ==
  /\ reqs[r].op = "loadConfig"
  /\ reqs[r].pc = "provider"
  /\ LET req == reqs[r]
         config == providerConfigResult(req.outcome)
     IN  /\ cachedConfig' = config
         /\ configLoadedAt' = providerLoadedAt(req.outcome, req.startedAt)
         /\ reqs' = [reqs EXCEPT ![r] =
              [op |-> "loadConfig", pc |-> "done", first |-> req.first,
               invoked |-> TRUE, outcome |-> req.outcome,
               earlier |-> req.earlier,
               rejected |-> providerRejects(req.outcome), config |-> config]]
  /\ UNCHANGED <<jar, configProvider, providerConfig, now, call, invalidated>>

\* The caller has the config; the slot is free for its next call.
LoadConfigReturn(r) ==
  /\ reqs[r].op = "loadConfig"
  /\ reqs[r].pc = "done"
  /\ reqs' = [reqs EXCEPT ![r] = Idle]
  /\ UNCHANGED <<jar, cachedConfig, configLoadedAt, configProvider, providerConfig,
                 now, call, invalidated>>

----------------------------------------------------------------------------
(* features.remote.ts: the remote functions, one request per slot.  A      *)
(* handler runs from one await of the provider to the next in one step;    *)
(* the loop of checkFeatures takes one step per key, each reading the      *)
(* clock, the cache and the cookies anew as the code does.                 *)

\* export const checkFeature = query(v.string(), async (featureKey) => ...):
\* the request arrives, getUserContext(event), then loadConfig up to its
\* return or to the await of the provider.
CheckFeatureStart(r, featureKey, generated) ==
  /\ reqs[r].op = "idle"
  /\ LET cookies == eventCookies(jar)
         userContext == getUserContext(cookies, generated)
     IN  IF loadsWithoutProvider
         THEN /\ cachedConfig' = staticConfig
              /\ configLoadedAt' = staticLoadedAt
              /\ reqs' = [reqs EXCEPT ![r] =
                   [op |-> "checkFeature", pc |-> "done", cookies |-> cookies,
                    key |-> featureKey, userContext |-> userContext,
                    config |-> staticConfig,
                    result |-> checkFeatureResult(featureKey,
                                  getFeatureConfig(staticConfig, featureKey),
                                  userContext)]]
         ELSE /\ reqs' = [reqs EXCEPT ![r] =
                   [op |-> "checkFeature", pc |-> "provider", cookies |-> cookies,
                    key |-> featureKey, userContext |-> userContext,
                    startedAt |-> now, outcome |-> providerConfig]]
              /\ UNCHANGED loaderVars
  /\ invalidated' = FALSE
  /\ UNCHANGED <<jar, configProvider, providerConfig, now, call>>

\* The provider's promise settles; loadConfig and checkFeature finish.
CheckFeatureResume(r) ==
  /\ reqs[r].op = "checkFeature"
  /\ reqs[r].pc = "provider"
  /\ LET req == reqs[r]
         config == providerConfigResult(req.outcome)
     IN  /\ cachedConfig' = config
         /\ configLoadedAt' = providerLoadedAt(req.outcome, req.startedAt)
         /\ reqs' = [reqs EXCEPT ![r] =
              [op |-> "checkFeature", pc |-> "done", cookies |-> req.cookies,
               key |-> req.key, userContext |-> req.userContext,
               config |-> config,
               result |-> checkFeatureResult(req.key,
                             getFeatureConfig(config, req.key), req.userContext)]]
  /\ UNCHANGED <<jar, configProvider, providerConfig, now, call, invalidated>>

\* export const checkFeatures = query(v.array(v.string()), async (featureKeys) => ...):
\* the request arrives; results = {}.
CheckFeaturesStart(r, featureKeys) ==
  /\ reqs[r].op = "idle"
  /\ reqs' = [reqs EXCEPT ![r] =
       [op |-> "checkFeatures", pc |-> "loop", cookies |-> eventCookies(jar),
        keys |-> featureKeys, i |-> 1, results |-> <<>>, used |-> <<>>]]
  /\ UNCHANGED <<jar, cachedConfig, configLoadedAt, configProvider, providerConfig,
                 now, call, invalidated>>

\* The request after the iteration for keys[i] has stored its entry: used
\* records the config and the user context that iteration evaluated.
afterIteration(req, config, userContext) ==
  [op |-> "checkFeatures",
   pc |-> IF req.i = Len(req.keys) THEN "done" ELSE "loop",
   cookies |-> req.cookies, keys |-> req.keys, i |-> req.i + 1,
   results |-> [k \in DOMAIN req.results \cup {req.keys[req.i]} |->
                  IF k = req.keys[req.i]
                  THEN checkFeaturesEntry(k, getFeatureConfig(config, k), userContext)
                  ELSE req.results[k]],
   used |-> Append(req.used, [config |-> config, userContext |-> userContext])]

\* for (const key of featureKeys): one iteration, up to `continue` or to the
\* await of the provider.
CheckFeaturesStep(r, generated) ==
  /\ reqs[r].op = "checkFeatures"
  /\ reqs[r].pc = "loop"
  /\ LET req == reqs[r]
         userContext == getUserContext(req.cookies, generated)
     IN  IF loadsWithoutProvider
         THEN /\ cachedConfig' = staticConfig
              /\ configLoadedAt' = staticLoadedAt
              /\ reqs' = [reqs EXCEPT ![r] = afterIteration(req, staticConfig, userContext)]
         ELSE /\ reqs' = [reqs EXCEPT ![r] =
                   [op |-> "checkFeatures", pc |-> "provider", cookies |-> req.cookies,
                    keys |-> req.keys, i |-> req.i, results |-> req.results,
                    used |-> req.used, userContext |-> userContext,
                    startedAt |-> now, outcome |-> providerConfig]]
              /\ UNCHANGED loaderVars
  /\ invalidated' = FALSE
  /\ UNCHANGED <<jar, configProvider, providerConfig, now, call>>

\* The provider's promise settles inside an iteration.
CheckFeaturesResume(r) ==
  /\ reqs[r].op = "checkFeatures"
  /\ reqs[r].pc = "provider"
  /\ LET req == reqs[r]
         config == providerConfigResult(req.outcome)
     IN  /\ cachedConfig' = config
         /\ configLoadedAt' = providerLoadedAt(req.outcome, req.startedAt)
         /\ reqs' = [reqs EXCEPT ![r] = afterIteration(req, config, req.userContext)]
  /\ UNCHANGED <<jar, configProvider, providerConfig, now, call, invalidated>>

\* export const joinGroup = command(v.string(), async (group) => ...)
JoinGroup(r, group, generated) ==
  /\ reqs[r].op = "idle"
  /\ LET ensured == ensureUserId(eventCookies(jar), generated)
         added == addUserToGroup(ensured, group, generated)
     IN  reqs' = [reqs EXCEPT ![r] =
           [op |-> "joinGroup", pc |-> "done", cookies |-> added.cookies,
            group |-> group,
            result |-> [success |-> TRUE, groups |-> added.context.groups]]]
  /\ UNCHANGED <<jar, cachedConfig, configLoadedAt, configProvider, providerConfig,
                 now, call, invalidated>>

\* export const leaveGroup = command(v.string(), async (group) => ...)
LeaveGroup(r, group, generated) ==
  /\ reqs[r].op = "idle"
  /\ LET ensured == ensureUserId(eventCookies(jar), generated)
         removed == removeUserFromGroup(ensured, group, generated)
     IN  reqs' = [reqs EXCEPT ![r] =
           [op |-> "leaveGroup", pc |-> "done", cookies |-> removed.cookies,
            group |-> group,
            result |-> [success |-> TRUE, groups |-> removed.context.groups]]]
  /\ UNCHANGED <<jar, cachedConfig, configLoadedAt, configProvider, providerConfig,
                 now, call, invalidated>>

\* export const getUserInfo = query(async () => ...): the request arrives and
\* is answered without an await.
GetUserInfo(r, generated) ==
  /\ reqs[r].op = "idle"
  /\ LET info == getUserInfo(eventCookies(jar), generated)
     IN  reqs' = [reqs EXCEPT ![r] =
           [op |-> "getUserInfo", pc |-> "done", cookies |-> info.cookies,
            result |-> info.result]]
  /\ UNCHANGED <<jar, cachedConfig, configLoadedAt, configProvider, providerConfig,
                 now, call, invalidated>>

\* The response reaches the browser, which stores the cookies it sets.
Respond(r) ==
  /\ reqs[r].op \in { "checkFeature", "checkFeatures", "getUserInfo",
                      "joinGroup", "leaveGroup", "handleFeatureRouting" }
  /\ reqs[r].pc = "done"
  /\ LET cookies == reqs[r].cookies
     IN  jar' = [n \in DOMAIN jar \cup cookies.written |->
                   IF n \in cookies.written THEN cookies.get[n] ELSE jar[n]]
  /\ reqs' = [reqs EXCEPT ![r] = Idle]
  /\ UNCHANGED <<cachedConfig, configLoadedAt, configProvider, providerConfig, now, call,
                 invalidated>>

\* One browser that sends a request when the previous one has been answered.
Session == { "r1" }

Next ==
  \/ \E r \in Session, k \in FeatureKeys, g \in SessionUserIds : CheckFeatureStart(r, k, g)
  \/ \E r \in Session : CheckFeatureResume(r)
  \/ \E r \in Session, ks \in KeyLists : CheckFeaturesStart(r, ks)
  \/ \E r \in Session, g \in SessionUserIds : CheckFeaturesStep(r, g)
  \/ \E r \in Session : CheckFeaturesResume(r)
  \/ \E r \in Session, g \in SessionUserIds : GetUserInfo(r, g)
  \/ \E r \in Session, grp \in Groups, g \in SessionUserIds : JoinGroup(r, grp, g)
  \/ \E r \in Session, grp \in Groups, g \in SessionUserIds : LeaveGroup(r, grp, g)
  \/ \E r \in Session : Respond(r)
  \/ InvalidateCache
  \/ \E o \in ProviderOutcomes : ProviderUpdate(o)
  \/ Tick

Spec == Init /\ [][Next]_vars

----------------------------------------------------------------------------
(* hooks/featureRouting.ts: handleFeatureRouting, one page request per     *)
(* slot.  The hook awaits loadConfig twice, for the routes and, inside     *)
(* isFeatureEnabled, for the feature; redirect() throws, which ends it.    *)

\* export async function getRouteConfig(): config.routes || {}
getRouteConfig(config) ==
  IF "routes" \in DOMAIN Configs[config] THEN Configs[config].routes ELSE <<>>

\* routeConfig[currentPath]; a path starts with '/', so it names no member
\* of Object.prototype
routeOf(routeConfig, currentPath) ==
  IF currentPath \in DOMAIN routeConfig THEN routeConfig[currentPath]
  ELSE JSUndefined

\* routeDef[key], tagged, where the hook goes on to test
\* `value && typeof value === 'string'`: an inherited member is a function
\* and fails that test as undefined does
routeEntry(routeDef, key) ==
  IF key \in DOMAIN routeDef THEN Str(routeDef[key]) ELSE JSUndefined

\* isUserInGroup that lets everyone in
isUserInGroupAnyone(context, group) == TRUE

\* export function isUserInGroup(context, group) of utils/userContext.ts
isUserInGroup(context, group) == includes(context.groups, group)

\* How the hook ends, or that it goes on
Resolve == [type |-> "resolve"]
Redirect(status, location) ==
  [type |-> "redirect", status |-> status, location |-> location]
Continue == [type |-> "continue"]

\* if (routeDef.requiresGroup) { ... }
requiresGroupBranch(routeDef, currentPath, userContext) ==
  IF ~ truthy(routeEntry(routeDef, "requiresGroup")) THEN Continue
  ELSE LET groupRoute == routeEntry(routeDef, routeDef.requiresGroup)
       IN  IF ~ isUserInGroup(userContext, routeDef.requiresGroup)
           THEN IF truthy(groupRoute) THEN Redirect(307, groupRoute.val)
                ELSE Redirect(307, "/")
           ELSE IF truthy(groupRoute) /\ groupRoute.val # currentPath
                THEN Redirect(307, groupRoute.val)
                ELSE Continue

\* if (routeDef.feature) { ... } after `await isFeatureEnabled(...)`
featureBranch(routeDef, currentPath, featureEnabled) ==
  LET enabled == routeEntry(routeDef, "enabled")
      disabled == routeEntry(routeDef, "disabled")
  IN  IF featureEnabled /\ truthy(enabled) /\ enabled.val # currentPath
      THEN Redirect(307, enabled.val)
      ELSE IF ~ featureEnabled /\ truthy(disabled) /\ disabled.val # currentPath
      THEN Redirect(307, disabled.val)
      ELSE Continue

\* for (const group of userContext.groups) { ... } from the i-th group on,
\* and `return resolve(event)` after it
RECURSIVE groupRoutes(_, _, _, _)
groupRoutes(routeDef, currentPath, groups, i) ==
  IF i > Len(groups) THEN Resolve
  ELSE LET group == groups[i]
           groupRoute == routeEntry(routeDef, group)
       IN  IF /\ truthy(groupRoute)
              /\ groupRoute.val # currentPath
              /\ group \notin { "feature", "requiresGroup", "enabled", "disabled" }
           THEN Redirect(307, groupRoute.val)
           ELSE groupRoutes(routeDef, currentPath, groups, i + 1)

\* The hook from the return of isFeatureEnabled to its end
afterFeature(routeDef, currentPath, userContext, featureEnabled) ==
  LET branch == featureBranch(routeDef, currentPath, featureEnabled)
  IN  IF branch.type = "redirect" THEN branch
      ELSE groupRoutes(routeDef, currentPath, userContext.groups, 1)

\* The request whose hook has ended with response
handled(req, response) ==
  [op |-> "handleFeatureRouting", pc |-> "done", cookies |-> req.cookies,
   path |-> req.path, routes |-> req.routes, response |-> response]

\* ... for a path with a route: userContext is the context the hook read
handledRoute(req, userContext, response) ==
  [op |-> "handleFeatureRouting", pc |-> "done", cookies |-> req.cookies,
   path |-> req.path, routes |-> req.routes, userContext |-> userContext,
   response |-> response]

\* ... after isFeatureEnabled: check is what it was given and what it said
handledFeature(req, userContext, check, response) ==
  [op |-> "handleFeatureRouting", pc |-> "done", cookies |-> req.cookies,
   path |-> req.path, routes |-> req.routes, userContext |-> userContext,
   check |-> check, response |-> response]

\* isFeatureEnabled from the return of getFeatureConfig: the config it
\* read, the user context it read, and its answer
featureCheck(config, featureKey, featureUser) ==
  [config |-> config, key |-> featureKey, userContext |-> featureUser,
   enabled |-> isFeatureEnabled(featureKey, getFeatureConfig(config, featureKey),
                                featureUser)]

\* export const handleFeatureRouting: Handle = async ({ event, resolve }) => ...:
\* the page request arrives; getRouteConfig() runs loadConfig up to its
\* return or to the await of the provider.
HandleStart(r, currentPath) ==
  /\ reqs[r].op = "idle"
  /\ IF loadsWithoutProvider
     THEN /\ cachedConfig' = staticConfig
          /\ configLoadedAt' = staticLoadedAt
          /\ reqs' = [reqs EXCEPT ![r] =
               [op |-> "handleFeatureRouting", pc |-> "route",
                cookies |-> eventCookies(jar), path |-> currentPath,
                routes |-> staticConfig]]
     ELSE /\ reqs' = [reqs EXCEPT ![r] =
               [op |-> "handleFeatureRouting", pc |-> "routesProvider",
                cookies |-> eventCookies(jar), path |-> currentPath,
                startedAt |-> now, outcome |-> providerConfig]]
          /\ UNCHANGED loaderVars
  /\ invalidated' = FALSE
  /\ UNCHANGED <<jar, configProvider, providerConfig, now, call>>

\* The provider's promise settles; getRouteConfig returns.
HandleRoutesResume(r) ==
  /\ reqs[r].op = "handleFeatureRouting"
  /\ reqs[r].pc = "routesProvider"
  /\ LET req == reqs[r]
         config == providerConfigResult(req.outcome)
     IN  /\ cachedConfig' = config
         /\ configLoadedAt' = providerLoadedAt(req.outcome, req.startedAt)
         /\ reqs' = [reqs EXCEPT ![r] =
              [op |-> "handleFeatureRouting", pc |-> "route",
               cookies |-> req.cookies, path |-> req.path, routes |-> config]]
  /\ UNCHANGED <<jar, configProvider, providerConfig, now, call, invalidated>>

\* The hook with the routes in hand: up to its end, or to the await of the
\* provider inside isFeatureEnabled.  generated and generated2 are what
\* generateUserId() returns to the hook and to isFeatureEnabled.
HandleRoute(r, generated, generated2) ==
  /\ reqs[r].op = "handleFeatureRouting"
  /\ reqs[r].pc = "route"
  /\ LET req == reqs[r]
         routeDef == routeOf(getRouteConfig(req.routes), req.path)
         userContext == getUserContext(req.cookies, generated)
         featureUser == getUserContext(req.cookies, generated2)
     IN  IF routeDef = JSUndefined
         THEN /\ reqs' = [reqs EXCEPT ![r] = handled(req, Resolve)]
              /\ UNCHANGED <<loaderVars, invalidated>>
         ELSE IF requiresGroupBranch(routeDef, req.path, userContext).type = "redirect"
         THEN /\ reqs' = [reqs EXCEPT ![r] =
                   handledRoute(req, userContext,
                      requiresGroupBranch(routeDef, req.path, userContext))]
              /\ UNCHANGED <<loaderVars, invalidated>>
         ELSE IF ~ truthy(routeEntry(routeDef, "feature"))
         THEN /\ reqs' = [reqs EXCEPT ![r] =
                   handledRoute(req, userContext,
                      groupRoutes(routeDef, req.path, userContext.groups, 1))]
              /\ UNCHANGED <<loaderVars, invalidated>>
         ELSE IF loadsWithoutProvider
         THEN LET check == featureCheck(staticConfig, routeDef.feature, featureUser)
              IN  /\ cachedConfig' = staticConfig
                  /\ configLoadedAt' = staticLoadedAt
                  /\ invalidated' = FALSE
                  /\ reqs' = [reqs EXCEPT ![r] =
                       handledFeature(req, userContext, check,
                          afterFeature(routeDef, req.path, userContext, check.enabled))]
         ELSE /\ reqs' = [reqs EXCEPT ![r] =
                   [op |-> "handleFeatureRouting", pc |-> "featureProvider",
                    cookies |-> req.cookies, path |-> req.path,
                    routes |-> req.routes, userContext |-> userContext,
                    featureUser |-> featureUser,
                    startedAt |-> now, outcome |-> providerConfig]]
              /\ invalidated' = FALSE
              /\ UNCHANGED loaderVars
  /\ UNCHANGED <<jar, configProvider, providerConfig, now, call>>

\* The provider's promise settles inside isFeatureEnabled; the hook runs to
\* its end.
HandleFeatureResume(r) ==
  /\ reqs[r].op = "handleFeatureRouting"
  /\ reqs[r].pc = "featureProvider"
  /\ LET req == reqs[r]
         routeDef == routeOf(getRouteConfig(req.routes), req.path)
         config == providerConfigResult(req.outcome)
         check == featureCheck(config, routeDef.feature, req.featureUser)
     IN  /\ cachedConfig' = config
         /\ configLoadedAt' = providerLoadedAt(req.outcome, req.startedAt)
         /\ reqs' = [reqs EXCEPT ![r] =
              handledFeature(req, req.userContext, check,
                 afterFeature(routeDef, req.path, req.userContext, check.enabled))]
  /\ UNCHANGED <<jar, configProvider, providerConfig, now, call, invalidated>>

\* The paths of the page requests: those of the routes, and one without
Paths == { "/", "/beta", "/checkout", "/dashboard", "/internal", "/about" }

\* The cookie jars of the browsers that request pages
RoutingJars ==
  { u @@ g :
      u \in optional("canary_user_id", SessionUserIds),
      g \in optional("canary_groups", { <<>>, <<"beta">>, <<"internal">>,
                                        <<"beta", "internal">> }) }

InitRouting ==
  /\ jar \in RoutingJars
  /\ cachedConfig = NoConfig
  /\ configLoadedAt = 0
  /\ configProvider \in BOOLEAN
  /\ providerConfig = "routesA"
  /\ now = 0
  /\ reqs = [r \in Requests |-> Idle]
  /\ call = [op |-> "none"]
  /\ invalidated = FALSE

NextRouting ==
  \/ \E r \in Session, path \in Paths : HandleStart(r, path)
  \/ \E r \in Session : HandleRoutesResume(r)
  \/ \E r \in Session, g \in SessionUserIds, g2 \in SessionUserIds : HandleRoute(r, g, g2)
  \/ \E r \in Session : HandleFeatureResume(r)
  \/ \E r \in Session : Respond(r)
  \/ InvalidateCache
  \/ \E o \in RoutingOutcomes : ProviderUpdate(o)
  \/ Tick

SpecRouting == InitRouting /\ [][NextRouting]_vars

----------------------------------------------------------------------------
(* The config loader by itself: one caller after another of loadConfig(),  *)
(* a provider that may return any of LoaderOutcomes.                       *)

InitLoader ==
  /\ jar = <<>>
  /\ cachedConfig = NoConfig
  /\ configLoadedAt = 0
  /\ configProvider \in BOOLEAN
  /\ providerConfig = "cfgA"
  /\ now = 0
  /\ reqs = [r \in Requests |-> Idle]
  /\ call = [op |-> "none"]
  /\ invalidated = FALSE

NextLoader ==
  \/ \E r \in Session : LoadConfigStart(r)
  \/ \E r \in Session : LoadConfigResume(r)
  \/ \E r \in Session : LoadConfigReturn(r)
  \/ InvalidateCache
  \/ \E o \in LoaderOutcomes : ProviderUpdate(o)
  \/ Tick

SpecLoader == InitLoader /\ [][NextLoader]_vars

----------------------------------------------------------------------------
(* Two callers of loadConfig() at a time, with a provider: a second call   *)
(* may start while the first awaits the provider, and the two promises     *)
(* settle in either order.                                                 *)

InitLoaderOverlap ==
  /\ jar = <<>>
  /\ cachedConfig = NoConfig
  /\ configLoadedAt = 0
  /\ configProvider = TRUE
  /\ providerConfig = "cfgA"
  /\ now = 0
  /\ reqs = [r \in Requests |-> Idle]
  /\ call = [op |-> "none"]
  /\ invalidated = FALSE

NextLoaderOverlap ==
  \/ \E r \in Requests : LoadConfigStart(r)
  \/ \E r \in Requests : LoadConfigResume(r)
  \/ \E r \in Requests : LoadConfigReturn(r)
  \/ InvalidateCache
  \/ \E o \in ProviderOutcomes : ProviderUpdate(o)
  \/ Tick

SpecLoaderOverlap == InitLoaderOverlap /\ [][NextLoaderOverlap]_vars

----------------------------------------------------------------------------
(* One browser with two requests under way at a time (two tabs, two        *)
(* queries of one page): both are sent with the cookies the browser holds. *)
(* The server runs without a provider, on the built-in config, so no       *)
(* request waits for one and the config never changes.                     *)

InitOverlap ==
  /\ jar \in InitialJars
  /\ cachedConfig = NoConfig
  /\ configLoadedAt = 0
  /\ configProvider = FALSE
  /\ providerConfig = "cfgA"
  /\ now = 0
  /\ reqs = [r \in Requests |-> Idle]
  /\ call = [op |-> "none"]
  /\ invalidated = FALSE

NextOverlap ==
  \/ \E r \in Requests, k \in FeatureKeys, g \in SessionUserIds :
        CheckFeatureStart(r, k, g)
  \/ \E r \in Requests, grp \in Groups, g \in SessionUserIds : JoinGroup(r, grp, g)
  \/ \E r \in Requests : Respond(r)
  \/ InvalidateCache
  \/ Tick

SpecOverlap == InitOverlap /\ [][NextOverlap]_vars

----------------------------------------------------------------------------
(* Calls of the pure functions of hash.ts: Init draws the arguments, the   *)
(* actions apply the function.                                             *)

HashStrings ==
  { "", "a", "test-string", "user-123:feature-abc", "polygenelubricants",
    "user-k7q03sqfycz:feature-abc" }

Percentages == 0..100

\* The variants arguments of assignVariant
VariantLists ==
  { <<>>, <<"control">>, <<"variant-a", "variant-b">>,
    <<"control", "variant-a", "variant-b">> }

InitHash ==
  /\ call \in [op : {"hashString"}, str : HashStrings]
              \cup [op : {"isInRollout"}, userId : UserIds, featureKey : FeatureKeys,
                    rollout : Percentages]
              \cup [op : {"assignVariant"}, userId : UserIds, featureKey : FeatureKeys,
                    variants : VariantLists, rollout : Percentages]
  /\ jar = <<>>
  /\ cachedConfig = NoConfig
  /\ configLoadedAt = 0
  /\ configProvider = FALSE
  /\ providerConfig = "cfgA"
  /\ now = 0
  /\ reqs = [r \in Requests |-> Idle]
  /\ invalidated = FALSE

programVars == <<jar, cachedConfig, configLoadedAt, configProvider, providerConfig,
                 now, reqs, invalidated>>

\* hashString(str); acc is the accumulator the loop ends in
HashStringCall ==
  /\ call.op = "hashString"
  /\ "result" \notin DOMAIN call
  /\ call' = [op |-> "hashString", str |-> call.str,
              acc |-> hashLoop(CharCodes[call.str], 1, 0),
              result |-> hashString(CharCodes[call.str])]
  /\ UNCHANGED programVars

\* isInRollout(userId, featureKey, rollout)
IsInRolloutCall ==
  /\ call.op = "isInRollout"
  /\ "result" \notin DOMAIN call
  /\ call' = [op |-> "isInRollout", userId |-> call.userId,
              featureKey |-> call.featureKey, rollout |-> call.rollout,
              result |-> isInRollout(call.userId, call.featureKey, call.rollout)]
  /\ UNCHANGED programVars

\* isInRollout for the same user and feature at another percentage
IsInRolloutAgain(p) ==
  /\ call.op = "isInRollout"
  /\ "result" \in DOMAIN call
  /\ "result2" \notin DOMAIN call
  /\ call' = [op |-> "isInRollout", userId |-> call.userId,
              featureKey |-> call.featureKey, rollout |-> call.rollout,
              result |-> call.result, rollout2 |-> p,
              result2 |-> isInRollout(call.userId, call.featureKey, p)]
  /\ UNCHANGED programVars

\* assignVariant(userId, featureKey, variants, rollout)
AssignVariantCall ==
  /\ call.op = "assignVariant"
  /\ "result" \notin DOMAIN call
  /\ call' = [op |-> "assignVariant", userId |-> call.userId,
              featureKey |-> call.featureKey, variants |-> call.variants,
              rollout |-> call.rollout,
              result |-> assignVariant(call.userId, call.featureKey, call.variants,
                                       call.rollout)]
  /\ UNCHANGED programVars

NextHash ==
  \/ HashStringCall
  \/ IsInRolloutCall
  \/ \E p \in Percentages : IsInRolloutAgain(p)
  \/ AssignVariantCall

SpecHash == InitHash /\ [][NextHash]_vars

----------------------------------------------------------------------------
(* The two checks of a feature side by side: Init draws a key, a config    *)
(* and a user context, the action gives them to the hook's                 *)
(* isFeatureEnabled and to checkFeature.                                   *)

\* The configs that validate
EvalConfigs == { "default", "cfgA", "cfgB", "cfgC" }

EvalContexts ==
  [userId : UserIds,
   groups : { <<>>, <<"beta">>, <<"internal">>, <<"beta", "internal">> },
   variants : { <<>>, ("ab-test-homepage" :> "control") }]

InitEval ==
  /\ call \in [op : {"isFeatureEnabled"}, featureKey : FeatureKeys,
                config : EvalConfigs, userContext : EvalContexts]
  /\ jar = <<>>
  /\ cachedConfig = NoConfig
  /\ configLoadedAt = 0
  /\ configProvider = FALSE
  /\ providerConfig = "cfgA"
  /\ now = 0
  /\ reqs = [r \in Requests |-> Idle]
  /\ invalidated = FALSE

\* isFeatureEnabled(event, featureKey) and checkFeature(featureKey) for one
\* definition and one user context
IsFeatureEnabledCall ==
  /\ call.op = "isFeatureEnabled"
  /\ "result" \notin DOMAIN call
  /\ LET featureDef == getFeatureConfig(call.config, call.featureKey)
     IN  call' = [op |-> "isFeatureEnabled", featureKey |-> call.featureKey,
                  config |-> call.config, userContext |-> call.userContext,
                  result |-> isFeatureEnabled(call.featureKey, featureDef,
                                              call.userContext),
                  query |-> checkFeatureResult(call.featureKey, featureDef,
                                               call.userContext)]
  /\ UNCHANGED programVars

NextEval == IsFeatureEnabledCall

SpecEval == InitEval /\ [][NextEval]_vars

----------------------------------------------------------------------------
(* Properties                                                              *)

\* The answered checkFeature requests, and the entries checkFeatures has
\* stored, each with the definition and the user context it was evaluated
\* against.
defines(config, key) == key \in DOMAIN Configs[config].features

singleAnswers ==
  { [key |-> reqs[r].key, config |-> reqs[r].config,
     userContext |-> reqs[r].userContext, result |-> reqs[r].result] :
       r \in { q \in Requests : reqs[q].op = "checkFeature" /\ reqs[q].pc = "done" } }

batchAnswers ==
  UNION { { [key |-> reqs[r].keys[j], config |-> reqs[r].used[j].config,
             userContext |-> reqs[r].used[j].userContext,
             result |-> reqs[r].results[reqs[r].keys[j]]] :
              j \in 1..Len(reqs[r].used) } :
          r \in { q \in Requests : reqs[q].op = "checkFeatures" } }

definitionOf(a) == Configs[a.config].features[a.key]

\* C1: for a feature defined with enabled:false and a non-empty userGroups,
\* checkFeature answers enabled=true to a user who is in one of the
\* userGroups and enabled=false to a user who is in none.
C1_GroupBypassOverridesDisabled ==
  \A a \in singleAnswers :
     (/\ defines(a.config, a.key)
      /\ definitionOf(a).enabled = FALSE
      /\ hasUserGroups(definitionOf(a)))
     => a.result.enabled = hasRequiredGroup(definitionOf(a), a.userContext)

\* C2: for a feature with enabled:true, a rollout below 100 and a non-empty
\* userGroups, checkFeature answers enabled=true to every user who is in one
\* of the userGroups, whatever isInRollout gives for that user.
C2_GroupBypassOverridesRollout ==
  \A a \in singleAnswers :
     (/\ defines(a.config, a.key)
      /\ definitionOf(a).enabled = TRUE
      /\ rolloutOf(definitionOf(a)) < 100
      /\ hasUserGroups(definitionOf(a))
      /\ hasRequiredGroup(definitionOf(a), a.userContext))
     => a.result.enabled = TRUE

\* C3: for a feature with enabled:true, rollout r and a non-empty userGroups,
\* checkFeature answers a user who is in none of the userGroups with
\* enabled = isInRollout(userId, featureKey, r).
C3_OutsideGroupsRolloutDecides ==
  \A a \in singleAnswers :
     (/\ defines(a.config, a.key)
      /\ definitionOf(a).enabled = TRUE
      /\ hasUserGroups(definitionOf(a))
      /\ ~ hasRequiredGroup(definitionOf(a), a.userContext))
     => a.result.enabled =
          isInRollout(a.userContext.userId, a.key, rolloutOf(definitionOf(a)))

\* C4: every entry of checkFeatures has the enabled value and the variant
\* that checkFeature gives for the same key, config and user context.
C4_BatchAgreesWithSingle ==
  \A a \in batchAnswers :
     LET single == checkFeatureResult(a.key, getFeatureConfig(a.config, a.key),
                                      a.userContext)
     IN  /\ a.result.enabled = single.enabled
         /\ variantOf(a.result) = variantOf(single)

\* C5: all keys of one checkFeatures call are evaluated against the same
\* config and with the same userId.
C5_BatchUsesOneSnapshot ==
  \A r \in Requests :
     reqs[r].op = "checkFeatures"
     => \A i, j \in 1..Len(reqs[r].used) :
           /\ reqs[r].used[i].config = reqs[r].used[j].config
           /\ reqs[r].used[i].userContext.userId = reqs[r].used[j].userContext.userId

\* C6: a key that the config's features mapping does not hold is answered
\* with enabled=false, the reason 'Feature not found' and no variant, by
\* checkFeature and by checkFeatures.
C6_NotFoundKey ==
  \A a \in singleAnswers \cup batchAnswers :
     ~ defines(a.config, a.key)
     => a.result = [enabled |-> FALSE, reason |-> "Feature not found"]

\* C7: hashString(x) is at least 0 and strictly below 1 for every string x.
C7_HashRange ==
  (call.op = "hashString" /\ "result" \in DOMAIN call)
  => /\ call.result.whole = 0
     /\ call.result.frac >= 0
     /\ call.result.frac < MaxInt32

\* C8: isInRollout(userId, featureKey, 0) is false for every user and feature.
C8_ZeroRolloutExcludesAll ==
  (call.op = "isInRollout" /\ "result" \in DOMAIN call /\ call.rollout = 0)
  => call.result = FALSE

\* C9: isInRollout(userId, featureKey, 100) is true for every user and feature.
C9_FullRolloutIncludesAll ==
  (call.op = "isInRollout" /\ "result" \in DOMAIN call /\ call.rollout = 100)
  => call.result = TRUE

\* C10: for the same user and feature and percentages p1 <= p2,
\* isInRollout at p1 implies isInRollout at p2.
C10_RolloutMonotone ==
  (/\ call.op = "isInRollout"
   /\ "result2" \in DOMAIN call
   /\ call.rollout <= call.rollout2
   /\ call.result = TRUE)
  => call.result2 = TRUE

\* A user inside the rollout at p1 has been asked again at a larger p2.
C10_Witness ==
  /\ call.op = "isInRollout"
  /\ "result2" \in DOMAIN call
  /\ call.rollout < call.rollout2
  /\ call.result = TRUE
  /\ call.result2 = TRUE

\* C11: assignVariant(u, f, variants, 0) returns null for every user, every
\* feature key and every non-empty variants list.
C11_ZeroRolloutAssignsNothing ==
  (/\ call.op = "assignVariant"
   /\ "result" \in DOMAIN call
   /\ Len(call.variants) > 0
   /\ call.rollout = 0)
  => call.result = JSNull

\* C12: for a non-empty variants list and a user inside the rollout,
\* assignVariant returns variants[floor(h * variants.length)] with h the
\* variant hash, that index lies in 0 .. variants.length - 1, and the result
\* is an element of the list, never undefined or null.
C12_VariantFromList ==
  (/\ call.op = "assignVariant"
   /\ "result" \in DOMAIN call
   /\ Len(call.variants) > 0
   /\ isInRollout(call.userId, call.featureKey, call.rollout))
  => LET h == hashOf[<<call.userId, call.featureKey, "variant">>]
         index == floorTimes(h, Len(call.variants))
     IN  /\ index \in 0 .. (Len(call.variants) - 1)
         /\ call.result = Str(call.variants[index + 1])

\* C14: two checkFeature calls for the same feature, sent from the same
\* browser with the same cookies and evaluated against the same config,
\* return the same enabled value and the same variant, also when the browser
\* holds no user-id cookie yet.
C14_SameUserSameResult ==
  \A r1, r2 \in Requests :
     (/\ reqs[r1].op = "checkFeature" /\ reqs[r1].pc = "done"
      /\ reqs[r2].op = "checkFeature" /\ reqs[r2].pc = "done"
      /\ reqs[r1].key = reqs[r2].key
      /\ reqs[r1].config = reqs[r2].config
      /\ reqs[r1].cookies.get = reqs[r2].cookies.get)
     => /\ reqs[r1].result.enabled = reqs[r2].result.enabled
        /\ variantOf(reqs[r1].result) = variantOf(reqs[r2].result)

\* The loadConfig calls that have finished
loaded == { r \in Requests : reqs[r].op = "loadConfig" /\ reqs[r].pc = "done" }

\* The configs of the model that are malformed: a rollout of 150, no boolean
\* enabled, variants / userGroups that are no array, a route of a missing
\* feature, a route path without the slash.
Malformed ==
  { "cfgBad", "cfgNoEnabled", "cfgBadVariants", "cfgBadGroups", "cfgBadRoute",
    "cfgBadPath" }

returnedDefinitions ==
  UNION { { Configs[reqs[r].config].features[key] :
              key \in DOMAIN Configs[reqs[r].config].features } : r \in loaded }

\* C16 as stated: every feature definition of a config that loadConfig
\* returns has a non-empty variants list whenever variants is present.
C16_VariantsNonEmpty ==
  \A featureDef \in returnedDefinitions :
     "variants" \in DOMAIN featureDef => Len(featureDef.variants) > 0

\* C16 as amended: every feature definition of a config that loadConfig
\* returns has an array as variants whenever variants is present with a
\* truthy value; the array may be empty.
C16_VariantsIsArray ==
  \A featureDef \in returnedDefinitions :
     "variants" \in DOMAIN featureDef
     => isArray(featureDef.variants) \/ featureDef.variants = ""

\* loadConfig returned a config from the provider that has a definition
\* with an empty variants array.
C16_Witness ==
  \E r \in loaded :
     /\ reqs[r].invoked
     /\ \E key \in DOMAIN Configs[reqs[r].config].features :
           LET featureDef == Configs[reqs[r].config].features[key]
           IN  /\ "variants" \in DOMAIN featureDef
               /\ isArray(featureDef.variants)
               /\ Len(featureDef.variants) = 0

\* C17: with a provider configured, a loadConfig call invokes the provider
\* exactly when it finds no cached config or a cached config of age >=
\* cacheTTL seconds; every other call returns the cached config, leaves the
\* cache as it is and does not invoke the provider.
C17_ProviderInvokedIffStale ==
  [][ \A r \in Requests :
        (configProvider /\ reqs[r].op = "idle" /\ reqs'[r].op = "loadConfig")
        => LET stale == \/ cachedConfig = NoConfig
                        \/ now - configLoadedAt >= cacheTTL * MsPerSecond
           IN  /\ reqs'[r].invoked = stale
               /\ ~ stale => /\ reqs'[r].pc = "done"
                             /\ reqs'[r].config = cachedConfig
                             /\ cachedConfig' = cachedConfig
                             /\ configLoadedAt' = configLoadedAt ]_vars

\* A call was served from the cache, a second or more after the load that
\* filled it, while the provider had another config to give.
C17_Witness ==
  \E r \in loaded :
     /\ configProvider
     /\ ~ reqs[r].invoked
     /\ reqs[r].config = cachedConfig
     /\ now > configLoadedAt
     /\ providerConfig # cachedConfig

\* C18: with a provider configured, the first loadConfig call that starts
\* after invalidateCache() has returned invokes the provider (it does not
\* serve a config fetched before the invalidation), also when a call that
\* started before the invalidation finishes after it.
C18_InvalidateForcesReload ==
  \A r \in Requests :
     (configProvider /\ reqs[r].op = "loadConfig" /\ reqs[r].first)
     => reqs[r].invoked

\* The groups / variants a cookie store holds (the empty list / map when the
\* cookie is missing, as getUserContext reads them)
persistedGroups(cookieMap) ==
  IF "canary_groups" \in DOMAIN cookieMap THEN cookieMap.canary_groups ELSE <<>>

persistedVariants(cookieMap) ==
  IF "canary_variants" \in DOMAIN cookieMap THEN cookieMap.canary_variants ELSE <<>>

NoDuplicates(seq) == \A i, j \in 1..Len(seq) : seq[i] = seq[j] => i = j

commands == { r \in Requests : reqs[r].op \in { "joinGroup", "leaveGroup" } }

\* C19: the persisted groups never hold a group twice; joinGroup of a group
\* the user already has leaves the list and the groups cookie as they are,
\* joinGroup of a new group appends it after the existing ones.
C19_GroupsWithoutDuplicates ==
  /\ NoDuplicates(persistedGroups(jar))
  /\ \A r \in commands :
        LET before == persistedGroups(jar)
            after == persistedGroups(reqs[r].cookies.get)
        IN  /\ NoDuplicates(after)
            /\ reqs[r].result.groups = after
            /\ reqs[r].op = "joinGroup"
                  => IF includes(before, reqs[r].group)
                     THEN /\ after = before
                          /\ "canary_groups" \notin reqs[r].cookies.written
                     ELSE /\ after = Append(before, reqs[r].group)
                          /\ "canary_groups" \in reqs[r].cookies.written

\* joinGroup has run for a group the browser's cookie already lists, next
\* to another group.
C19_Witness ==
  \E r \in commands :
     /\ reqs[r].op = "joinGroup"
     /\ Len(persistedGroups(jar)) = 2
     /\ includes(persistedGroups(jar), reqs[r].group)

\* C20: joinGroup and leaveGroup (ensureUserId, then addUserToGroup or
\* removeUserFromGroup) never change a user id that is persisted, in the
\* request's cookie store or in the browser, and never change the persisted
\* variants map.
C20_CommandsKeepIdAndVariants ==
  [][ /\ "canary_user_id" \in DOMAIN jar
           => /\ "canary_user_id" \in DOMAIN jar'
              /\ jar'.canary_user_id = jar.canary_user_id
      /\ persistedVariants(jar') = persistedVariants(jar)
      /\ \A r \in Requests :
           reqs'[r].op \in { "joinGroup", "leaveGroup" }
           => /\ "canary_user_id" \in DOMAIN jar
                    => reqs'[r].cookies.get.canary_user_id = jar.canary_user_id
              /\ persistedVariants(reqs'[r].cookies.get) = persistedVariants(jar) ]_vars

\* A command has rewritten all three cookies of a browser that had a user
\* id and a variants map.
C20_Witness ==
  \E r \in commands :
     /\ reqs[r].pc = "done"
     /\ "canary_user_id" \in DOMAIN jar
     /\ "canary_variants" \in DOMAIN jar
     /\ { "canary_user_id", "canary_variants" } \subseteq reqs[r].cookies.written
\* The queries of features.remote.ts
queries == { "checkFeature", "checkFeatures", "getUserInfo" }

\* C21: a query (checkFeature, checkFeatures, getUserInfo, each reading the
\* user through getUserContext) sets and deletes no cookie, so its response
\* leaves the browser's cookies as they are; the persisted state changes
\* only when the response of joinGroup or leaveGroup arrives.
C21_QueriesAreReadOnly ==
  /\ [](\A r \in Requests :
          reqs[r].op \in queries => reqs[r].cookies.written = {})
  /\ [][ jar' # jar =>
           \E r \in commands :
              /\ reqs[r].pc = "done"
              /\ reqs'[r] = Idle ]_vars

\* A query has answered a browser that sent no user id: the id in its
\* answer is a generated one, and no cookie keeps it.
C21_Witness ==
  \E r \in Requests :
     /\ reqs[r].op \in queries
     /\ reqs[r].pc = "done"
     /\ "canary_user_id" \notin DOMAIN jar
     /\ reqs[r].cookies.written = {}

\* The answers of checkFeature with enabled=true for a feature the config
\* defines with a non-empty variants list
variantAnswers ==
  { a \in singleAnswers :
      /\ defines(a.config, a.key)
      /\ hasVariants(definitionOf(a))
      /\ a.result.enabled }

\* assignVariant for the user, the feature and the rollout of an answer
computedVariant(a) ==
  assignVariant(a.userContext.userId, a.key, definitionOf(a).variants,
                rolloutOf(definitionOf(a)))

\* C22: when the feature is enabled for the user and has variants, and the
\* user context holds a persisted variant for the key, checkFeature returns
\* that persisted variant, whatever assignVariant would compute.
C22_PersistedVariantWins ==
  \A a \in variantAnswers :
     a.key \in DOMAIN a.userContext.variants
     => a.result.variant = Str(a.userContext.variants[a.key])

\* checkFeature has returned a persisted variant that differs from the one
\* assignVariant computes for the user.
C22_Witness ==
  \E a \in variantAnswers :
     /\ a.key \in DOMAIN a.userContext.variants
     /\ computedVariant(a) # Str(a.userContext.variants[a.key])
     /\ a.result.variant = Str(a.userContext.variants[a.key])

\* The variant the fallback chain of checkFeature names for an answer: the
\* persisted one, else the computed one, else defaultVariant, else the
\* first entry of variants.
chainVariant(a) ==
  IF a.key \in DOMAIN a.userContext.variants
  THEN Str(a.userContext.variants[a.key])
  ELSE IF computedVariant(a) \notin { JSNull, JSUndefined }
  THEN computedVariant(a)
  ELSE IF "defaultVariant" \in DOMAIN definitionOf(a)
  THEN Str(definitionOf(a).defaultVariant)
  ELSE Str(definitionOf(a).variants[1])

\* C23: whenever checkFeature answers enabled=true for a feature with a
\* non-empty variants list, the answer has a defined variant and the reason
\* 'Feature enabled with variant', and the variant is the persisted one if
\* there is one, else the computed one, else defaultVariant, else the first
\* entry of variants.
C23_EnabledWithVariant ==
  \A a \in variantAnswers :
     /\ "variant" \in DOMAIN a.result
     /\ a.result.variant \notin { JSNull, JSUndefined }
     /\ a.result.reason = "Feature enabled with variant"
     /\ a.result.variant = chainVariant(a)

\* checkFeature has answered a user with no persisted variant for whom
\* assignVariant computes none either: the answer falls back to
\* defaultVariant or to the first entry.
C23_Witness ==
  \E a \in variantAnswers :
     /\ a.key \notin DOMAIN a.userContext.variants
     /\ computedVariant(a) \in { JSNull, JSUndefined }
     /\ a.result.variant \notin { JSNull, JSUndefined }

\* The provider threw, rejected, or returned a config that does not validate
failed(outcome) == outcome = "throws" \/ outcome \in Malformed

\* C24: when the provider of a loadConfig call throws, rejects or returns
\* an invalid config, the call does not reject: it returns the config the
\* cache holds at that moment, expired or not, and leaves the cache as it
\* is; with nothing cached it returns the built-in default and caches it.
C24_ProviderFailureFallsBack ==
  [][ \A r \in Requests :
        (/\ reqs[r].op = "loadConfig"
         /\ reqs[r].pc = "provider"
         /\ reqs'[r].op = "loadConfig"
         /\ reqs'[r].pc = "done"
         /\ failed(reqs[r].outcome))
        => /\ ~ reqs'[r].rejected
           /\ IF cachedConfig # NoConfig
              THEN /\ reqs'[r].config = cachedConfig
                   /\ cachedConfig' = cachedConfig
                   /\ configLoadedAt' = configLoadedAt
              ELSE /\ reqs'[r].config = "default"
                   /\ cachedConfig' = "default" ]_vars

\* The provider threw while the cached cfgA had expired: the call returned
\* cfgA.
C24_Witness ==
  \E r \in loaded :
     /\ reqs[r].outcome = "throws"
     /\ reqs[r].config = "cfgA"
     /\ cachedConfig = "cfgA"
     /\ now - configLoadedAt >= cacheTTL * MsPerSecond

\* C27: for every feature definition, key and user context, the hook's
\* isFeatureEnabled returns true exactly when checkFeature returns
\* enabled=true.
C27_HookAgreesWithQuery ==
  (call.op = "isFeatureEnabled" /\ "result" \in DOMAIN call)
  => call.result = call.query.enabled

\* Both checks had a definition with user groups and a rollout below 100 to
\* decide, for a user in one of the groups, and said yes.
C27_Witness ==
  /\ call.op = "isFeatureEnabled"
  /\ "result" \in DOMAIN call
  /\ defines(call.config, call.featureKey)
  /\ hasUserGroups(Configs[call.config].features[call.featureKey])
  /\ rolloutOf(Configs[call.config].features[call.featureKey]) < 100
  /\ call.result
  /\ call.query.enabled

\* The page requests whose hook has ended, for a path that has a route
routed ==
  { r \in Requests :
      /\ reqs[r].op = "handleFeatureRouting"
      /\ reqs[r].pc = "done"
      /\ reqs[r].path \in DOMAIN getRouteConfig(reqs[r].routes) }

\* The route definition the hook of such a request read
routeDefOf(r) == getRouteConfig(reqs[r].routes)[reqs[r].path]

\* C25: a request for a path whose route has requiresGroup = g, from a user
\* who is not in g, is never resolved to the page; the hook ends with a 307
\* redirect, to the route's entry for g when it has one and to '/'
\* otherwise.
C25_RequiredGroupBlocks ==
  \A r \in routed :
     (/\ "requiresGroup" \in DOMAIN routeDefOf(r)
      /\ ~ includes(reqs[r].userContext.groups, routeDefOf(r).requiresGroup))
     => reqs[r].response =
          [type |-> "redirect", status |-> 307,
           location |-> IF routeDefOf(r).requiresGroup \in DOMAIN routeDefOf(r)
                        THEN routeDefOf(r)[routeDefOf(r).requiresGroup]
                        ELSE "/"]

\* A user who is in another group than the required one, on a route that
\* also has a feature, has been redirected.
C25_Witness ==
  \E r \in routed :
     /\ "requiresGroup" \in DOMAIN routeDefOf(r)
     /\ "feature" \in DOMAIN routeDefOf(r)
     /\ reqs[r].userContext.groups # <<>>
     /\ ~ includes(reqs[r].userContext.groups, routeDefOf(r).requiresGroup)
     /\ reqs[r].response.type = "redirect"

\* C26: handleFeatureRouting never redirects to the path of the request, in
\* none of its branches.
C26_NoRedirectToSelf ==
  \A r \in routed :
     reqs[r].response.type = "redirect"
     => reqs[r].response.location # reqs[r].path

\* C28: when two joinGroup calls of one user overlap, the groups persisted
\* after both hold both groups: the response of a joinGroup for the user
\* the browser holds leaves every group the browser already has in place
\* and adds its own.  (SpecOverlap has no leaveGroup, so no group is ever
\* meant to go.)
C28_NoLostGroupUpdate ==
  [][ \A r \in Requests :
        (/\ reqs[r].op = "joinGroup"
         /\ reqs[r].pc = "done"
         /\ reqs'[r] = Idle
         /\ "canary_user_id" \in DOMAIN jar
         /\ reqs[r].cookies.get.canary_user_id = jar.canary_user_id)
        => /\ \A g \in Groups :
                 includes(persistedGroups(jar), g)
                 => includes(persistedGroups(jar'), g)
           /\ includes(persistedGroups(jar'), reqs[r].group) ]_vars

\* C29: when two loadConfig calls overlap on a cold or expired cache, the
\* cache afterwards holds the config of the provider invocation that
\* started last: when the call that started earlier finishes after the one
\* that started later, both with a valid config, the cache keeps the later
\* call's config.
C29_LastStartedInvocationWins ==
  [][ \A r, q \in Requests :
        (/\ reqs[r].op = "loadConfig"
         /\ reqs[r].pc = "provider"
         /\ reqs'[r].op = "loadConfig"
         /\ reqs'[r].pc = "done"
         /\ q \in loaded
         /\ reqs[q].invoked
         /\ r \in reqs[q].earlier
         /\ ~ failed(reqs[r].outcome)
         /\ ~ failed(reqs[q].outcome)
         /\ cachedConfig = reqs[q].config)
        => cachedConfig' = reqs[q].config ]_vars

====
